---- MODULE Spec2Model ----
(***************************************************************************)
(* State-machine model of esp32_firmware/src/main.cpp: the INMP441 audio   *)
(* recorder.  One thread of control runs setup() and then loop() forever;  *)
(* loop() calls record_audio(), print_samples_continuously() or            *)
(* stream_audio_continuously().  The host fills the serial receive buffer  *)
(* concurrently, and the I2S driver decides what each i2s_read returns.    *)
(*                                                                         *)
(* A data byte is identified by its position in the acquisition stream     *)
(* (1, 2, 3, ...), counted from the last command read by loop().  In       *)
(* i2s_buffer the bytes of the latest read carry their positions; a byte   *)
(* left over from an earlier read, and the zero bytes the global buffer    *)
(* starts with, carry the label 0.  Bytes sent by the host carry their     *)
(* character and their arrival number.                                     *)
(***************************************************************************)
EXTENDS Integers, Sequences, FiniteSets, TLC

(* ---- sizes.  The firmware is built with 16000 Hz, 5 s and 1024 frames   *)
(* (160000 bytes per recording, 2048 bytes per i2s_read); the model keeps  *)
(* the source's formulas over small values, so that every chunking of a    *)
(* recording is enumerated.  As in the firmware, the recording size is not *)
(* a multiple of the buffer size.                                          *)
I2S_SAMPLE_RATE == 3
RECORD_DURATION_SECONDS == 1
I2S_BUFFER_SIZE == 2
SIZEOF_INT16 == 2

RECORD_BUFFER_SIZE == I2S_SAMPLE_RATE * RECORD_DURATION_SECONDS * SIZEOF_INT16
SizeofI2sBuffer == I2S_BUFFER_SIZE * SIZEOF_INT16

(* ---- bounds of the environment: the bytes the host sends in all, and    *)
(* the bytes the microphone delivers during one continuous session (a      *)
(* recording ends by itself).                                              *)
MaxSent == 3
MaxStreamBytes == 6

CommandChars == {"r", "d", "l", "x"}

VARIABLES
  pc,
  stack,
  rx,
  sent,
  cmd,
  i2s_buffer,
  srcPos,
  bytes_read_in_chunk,
  total_bytes_read,
  out,
  acquired,
  entryMark,
  stopMark,
  readsAfterByte,
  recLens,
  frame,
  printed

vars == <<pc, stack, rx, sent, cmd, i2s_buffer, srcPos, bytes_read_in_chunk,
          total_bytes_read, out, acquired, entryMark, stopMark,
          readsAfterByte, recLens, frame, printed>>

(* ---- the serial port (Arduino Serial) *)
TextLine(t) == [k |-> "text", text |-> t, ids |-> <<>>]
RawByte(b) == [k |-> "raw", text |-> "", ids |-> <<b>>]
SampleLine(lo, hi) == [k |-> "sample", text |-> "", ids |-> <<lo, hi>>]

SerialAvailable(q) == Len(q)
SerialPrintln(o, t) == Append(o, TextLine(t))
(* a write of the whole buffer instead of the bytes read *)
SerialWrite_whole(o, buf, n) ==
  o \o [i \in 1..SizeofI2sBuffer |-> RawByte(buf[i])]

(* a write that stops one byte short of the block *)
SerialWrite_short(o, buf, n) == o \o [i \in 1..(n - 1) |-> RawByte(buf[i])]

(* a write followed by a progress line *)
SerialWrite_progress(o, buf, n) ==
  Append(o \o [i \in 1..n |-> RawByte(buf[i])], TextLine("Chunk sent."))

SerialWrite(o, buf, n) == o \o [i \in 1..n |-> RawByte(buf[i])]

(* for (i = 0; i < samples_read; i++) Serial.println(i2s_buffer[i]);       *)
(* frame i is the little-endian pair of bytes 2i, 2i+1 of the buffer.      *)
(* a sample count rounded up *)
SamplesRead_roundedUp(n) == (n + SIZEOF_INT16 - 1) \div SIZEOF_INT16

SamplesRead(n) == n \div SIZEOF_INT16
PrintSamples(o, buf, n) ==
  o \o [i \in 1..SamplesRead(n) |->
          SampleLine(buf[SIZEOF_INT16 * (i - 1) + 1], buf[SIZEOF_INT16 * (i - 1) + 2])]

(* ---- the sample codec.  A frame in memory is its bytes, least           *)
(* significant first (the ESP32 is little-endian).                         *)
NoFrame == [width |-> 0, bytes |-> <<>>]

(* the buffer declared uint16_t: the bytes read without a sign *)
Int16At_unsigned(lo, hi) == lo + 2^8 * hi

(* int16_t i2s_buffer[i]: the two's-complement value of the byte pair *)
Int16At(lo, hi) ==
  LET u == lo + 2^8 * hi IN IF u >= 2^15 THEN u - 2^16 ELSE u

(* the 32-bit build: an int32_t frame, its top byte carrying the sign *)
Int32At(b) ==
  b[1] + 2^8 * b[2] + 2^16 * b[3]
    + 2^24 * (IF b[4] >= 2^7 THEN b[4] - 2^8 ELSE b[4])

(* shift_amount of a configuration: 0 for 16-bit frames, 8 where a 32-bit  *)
(* container carries a 24-bit sample left-justified                        *)
ShiftAmount(width) == IF width = 32 THEN 8 ELSE 0

(* v >> s on a signed int: the quotient rounded towards minus infinity *)
ShiftRight(v, s) == v \div 2^s

(* Serial.println(int): Print::print(long, DEC) writes '-' and the digits  *)
(* of the magnitude, most significant first.                               *)
DigitChars == <<"0", "1", "2", "3", "4", "5", "6", "7", "8", "9">>

RECURSIVE PrintNumber(_)
PrintNumber(n) ==
  IF n < 10 THEN <<DigitChars[n + 1]>>
  ELSE Append(PrintNumber(n \div 10), DigitChars[(n % 10) + 1])

PrintDecimal(v) == IF v < 0 THEN <<"-">> \o PrintNumber(-v) ELSE PrintNumber(v)

(* ---- the I2S driver: i2s_read(I2S_PORT, &i2s_buffer, sizeof(i2s_buffer), *)
(* &bytes_read, portMAX_DELAY) stores the next n <= sizeof(i2s_buffer)     *)
(* bytes of the acquisition stream at the start of the buffer and leaves   *)
(* the rest of the buffer as it was (old data).  It answers ESP_OK with the number of *)
(* bytes it stored, or an error, which stores nothing whatever it leaves   *)
(* in *bytes_read.                                                         *)
Old(b) == 0

I2sReadInto(buf, pos, n) ==
  [i \in 1..SizeofI2sBuffer |-> IF i <= n THEN pos + i - 1 ELSE Old(buf[i])]

I2sAnswers ==
  {a \in [res : {"ESP_OK", "ESP_FAIL"}, n : 0..SizeofI2sBuffer] :
     (a.res = "ESP_OK" /\ a.n > 0 /\ stack[Len(stack)] # "record_audio")
        => srcPos + a.n - 1 <= MaxStreamBytes}

Stored(a) == IF a.res = "ESP_OK" THEN a.n ELSE 0

(* what the n bytes from pos on, stored by a read, amount to on the        *)
(* output: the bytes themselves, or one line per whole frame.              *)
AcquiredItems(kind, pos, n) ==
  IF kind = "raw"
    THEN [i \in 1..n |-> RawByte(pos + i - 1)]
    ELSE [i \in 1..(n \div SIZEOF_INT16) |->
            SampleLine(pos + SIZEOF_INT16 * (i - 1), pos + SIZEOF_INT16 * (i - 1) + 1)]

(* a test of the byte count alone *)
ReadSucceeded_anyStatus(res, n) == n > 0

(* if (result == ESP_OK && bytes_read > 0) *)
ReadSucceeded(res, n) == res = "ESP_OK" /\ n > 0

(* a loop that only an 'x' stops *)
ContinueLoop_onlyX(q) == SerialAvailable(q) = 0 \/ Head(q).ch # "x"

(* a loop that needs two waiting bytes before it stops *)
ContinueLoop_two(q) == SerialAvailable(q) < 2

(* while (Serial.available() == 0) *)
ContinueLoop(q) == SerialAvailable(q) = 0

(* a loop that still runs when the budget is exactly reached *)
RecordMore_inclusive(total) == total <= RECORD_BUFFER_SIZE

(* a recording that a waiting byte ends, like the continuous modes *)
RecordMore_cancellable(total) == total < RECORD_BUFFER_SIZE /\ rx = <<>>

(* while (total_bytes_read < RECORD_BUFFER_SIZE) *)
RecordMore(total) == total < RECORD_BUFFER_SIZE

(* ---- modes: the function loop() is inside of, if any *)
ModeOfFrame(f) ==
  CASE f = "record_audio" -> "Recording"
    [] f = "print_samples_continuously" -> "PrintingDecoded"
    [] f = "stream_audio_continuously" -> "StreamingRaw"
    [] OTHER -> "Idle"

Mode == ModeOfFrame(stack[Len(stack)])

NoCmd == [ch |-> "", id |-> 0]

Boot ==
  /\ pc = "setup"
  /\ stack = <<"setup">>
  /\ rx = <<>>
  /\ sent = 0
  /\ cmd = NoCmd
  /\ i2s_buffer = [i \in 1..SizeofI2sBuffer |-> 0]
  /\ srcPos = 1
  /\ bytes_read_in_chunk = 0
  /\ total_bytes_read = 0
  /\ out = <<>>
  /\ acquired = <<>>
  /\ entryMark = 0
  /\ stopMark = 0
  /\ readsAfterByte = 0
  /\ recLens = {}

Init ==
  /\ Boot
  /\ frame = NoFrame
  /\ printed = <<>>

(* ---- the host: a byte arrives in the serial receive buffer *)
host_send ==
  /\ sent < MaxSent
  /\ \E c \in CommandChars :
       rx' = Append(rx, [ch |-> c, id |-> sent + 1])
  /\ sent' = sent + 1
  /\ UNCHANGED <<pc, stack, cmd, i2s_buffer, srcPos, bytes_read_in_chunk,
                 total_bytes_read, out, acquired, entryMark, stopMark,
                 readsAfterByte, recLens, frame, printed>>

(* ---- setup() *)
Banner(o) ==
  SerialPrintln(SerialPrintln(o, "--- INMP441 Audio Recorder ---"),
                "Send 'r' to start a 5-second recording.")

setup_driver_install ==
  /\ pc = "setup"
  /\ \E err \in {"ESP_OK", "ESP_FAIL"} :
       IF err # "ESP_OK"
         THEN /\ out' = SerialPrintln(Banner(out), "Failed to install driver")
              /\ pc' = "halt"
         ELSE /\ out' = Banner(out)
              /\ pc' = "set_pin"
  /\ UNCHANGED <<stack, rx, sent, cmd, i2s_buffer, srcPos,
                 bytes_read_in_chunk, total_bytes_read, acquired, entryMark,
                 stopMark, readsAfterByte, recLens, frame, printed>>

(* a failed i2s_set_pin that reports and goes on, without the while (true) *)
setup_set_pin_returns ==
  /\ pc = "set_pin"
  /\ \E err \in {"ESP_OK", "ESP_FAIL"} :
       /\ out' = IF err # "ESP_OK"
                   THEN SerialPrintln(SerialPrintln(out, "Failed to set pin"),
                                      "I2S driver installed. Ready to record.")
                   ELSE SerialPrintln(out, "I2S driver installed. Ready to record.")
       /\ pc' = "loop"
       /\ stack' = <<"loop">>
  /\ UNCHANGED <<rx, sent, cmd, i2s_buffer, srcPos, bytes_read_in_chunk,
                 total_bytes_read, acquired, entryMark, stopMark,
                 readsAfterByte, recLens, frame, printed>>

setup_set_pin ==
  /\ pc = "set_pin"
  /\ \E err \in {"ESP_OK", "ESP_FAIL"} :
       IF err # "ESP_OK"
         THEN /\ out' = SerialPrintln(out, "Failed to set pin")
              /\ pc' = "halt"
              /\ stack' = stack
         ELSE /\ out' = SerialPrintln(out, "I2S driver installed. Ready to record.")
              /\ pc' = "loop"
              /\ stack' = <<"loop">>
  /\ UNCHANGED <<rx, sent, cmd, i2s_buffer, srcPos, bytes_read_in_chunk,
                 total_bytes_read, acquired, entryMark, stopMark,
                 readsAfterByte, recLens, frame, printed>>

(* ---- loop(): the command dispatcher *)
(* 'd' and 'l' exchanged *)
CalleeOf_swapped(c) ==
  CASE c = "r" -> "record_audio"
    [] c = "l" -> "print_samples_continuously"
    [] c = "d" -> "stream_audio_continuously"
    [] OTHER -> "none"

(* a final else that records *)
CalleeOf_default(c) ==
  CASE c = "d" -> "print_samples_continuously"
    [] c = "l" -> "stream_audio_continuously"
    [] OTHER -> "record_audio"

CalleeOf(c) ==
  CASE c = "r" -> "record_audio"
    [] c = "d" -> "print_samples_continuously"
    [] c = "l" -> "stream_audio_continuously"
    [] OTHER -> "none"

EntryPc(f) ==
  CASE f = "record_audio" -> "rec_enter"
    [] f = "print_samples_continuously" -> "print_enter"
    [] f = "stream_audio_continuously" -> "stream_enter"
    [] OTHER -> "loop"

Continuous(f) ==
  f \in {"print_samples_continuously", "stream_audio_continuously"}

(* a dispatcher that is also polled inside the recording loop *)
DispatcherRuns_nested == pc \in {"loop", "rec_test"}

(* loop() is the only reader of commands, and runs only between calls *)
DispatcherRuns == pc = "loop"

(* A command byte read by loop() opens a new observation window: out,      *)
(* acquired and the stream positions are counted from here, and the bytes  *)
(* left in i2s_buffer are relabelled 0 (data older than the window).       *)
(* entryMark is the arrival number of the last byte that was in the        *)
(* receive buffer when a continuous mode was called.                       *)
loop ==
  /\ DispatcherRuns
  /\ SerialAvailable(rx) > 0
  /\ cmd' = Head(rx)
  /\ rx' = Tail(rx)
  /\ LET f == CalleeOf(Head(rx).ch) IN
       /\ pc' = EntryPc(f)
       /\ stack' = IF f = "none" THEN stack ELSE Append(stack, f)
       /\ entryMark' = IF Continuous(f) THEN sent ELSE entryMark
  /\ out' = <<>>
  /\ acquired' = <<>>
  /\ srcPos' = 1
  /\ i2s_buffer' = [i \in 1..SizeofI2sBuffer |-> Old(i2s_buffer[i])]
  /\ UNCHANGED <<sent, bytes_read_in_chunk, total_bytes_read, stopMark,
                 readsAfterByte, recLens, frame, printed>>

Return(s) == SubSeq(s, 1, Len(s) - 1)

(* bytes written raw since the last command was read *)
RECURSIVE RawCount(_)
RawCount(o) ==
  IF o = <<>> THEN 0
  ELSE (IF Head(o).k = "raw" THEN 1 ELSE 0) + RawCount(Tail(o))

(* ---- record_audio() *)
(* a recording that empties the receive buffer on entry *)
record_audio_enter_clearing ==
  /\ pc = "rec_enter"
  /\ out' = SerialPrintln(out, "Recording...")
  /\ total_bytes_read' = 0
  /\ bytes_read_in_chunk' = 0
  /\ pc' = "rec_test"
  /\ rx' = <<>>
  /\ UNCHANGED <<stack, sent, cmd, i2s_buffer, srcPos, acquired,
                 entryMark, stopMark, readsAfterByte, recLens, frame, printed>>

record_audio_enter ==
  /\ pc = "rec_enter"
  /\ out' = SerialPrintln(out, "Recording...")
  /\ total_bytes_read' = 0
  /\ bytes_read_in_chunk' = 0
  /\ pc' = "rec_test"
  /\ UNCHANGED <<stack, rx, sent, cmd, i2s_buffer, srcPos, acquired,
                 entryMark, stopMark, readsAfterByte, recLens, frame, printed>>

(* the loop condition, and what follows the loop; the locals end with the  *)
(* frame.  recLens collects the raw byte counts of the finished recordings.*)
record_audio_test ==
  /\ pc = "rec_test"
  /\ IF RecordMore(total_bytes_read)
       THEN /\ pc' = "rec_body"
            /\ UNCHANGED <<stack, out, bytes_read_in_chunk, total_bytes_read,
                           recLens>>
       ELSE /\ out' = SerialPrintln(out, "Recording finished.")
            /\ pc' = "loop"
            /\ stack' = Return(stack)
            /\ recLens' = recLens \cup {RawCount(out)}
            /\ bytes_read_in_chunk' = 0
            /\ total_bytes_read' = 0
  /\ UNCHANGED <<rx, sent, cmd, i2s_buffer, srcPos, acquired, entryMark,
                 stopMark, readsAfterByte, frame, printed>>

(* an iteration that writes the block but does not count it *)
record_audio_body_uncounted ==
  /\ pc = "rec_body"
  /\ \E a \in I2sAnswers :
       LET buf == I2sReadInto(i2s_buffer, srcPos, Stored(a)) IN
         /\ i2s_buffer' = buf
         /\ srcPos' = srcPos + Stored(a)
         /\ acquired' = acquired \o AcquiredItems("raw", srcPos, Stored(a))
         /\ bytes_read_in_chunk' = a.n
         /\ out' = IF ReadSucceeded(a.res, a.n) THEN SerialWrite(out, buf, a.n)
                                                ELSE out
  /\ pc' = "rec_test"
  /\ UNCHANGED <<stack, rx, sent, cmd, entryMark, stopMark, readsAfterByte,
                 recLens, frame, printed, total_bytes_read>>

(* one iteration: i2s_read, then the write if the read succeeded *)
record_audio_body ==
  /\ pc = "rec_body"
  /\ \E a \in I2sAnswers :
       LET buf == I2sReadInto(i2s_buffer, srcPos, Stored(a)) IN
         /\ i2s_buffer' = buf
         /\ srcPos' = srcPos + Stored(a)
         /\ acquired' = acquired \o AcquiredItems("raw", srcPos, Stored(a))
         /\ bytes_read_in_chunk' = a.n
         /\ IF ReadSucceeded(a.res, a.n)
              THEN /\ out' = SerialWrite(out, buf, a.n)
                   /\ total_bytes_read' = total_bytes_read + a.n
              ELSE UNCHANGED <<out, total_bytes_read>>
  /\ pc' = "rec_test"
  /\ UNCHANGED <<stack, rx, sent, cmd, entryMark, stopMark, readsAfterByte,
                 recLens, frame, printed>>

(* ---- while(Serial.available()) Serial.read(); one iteration, or the exit *)
ClearStep(next) ==
  IF SerialAvailable(rx) > 0
    THEN /\ rx' = Tail(rx)
         /\ pc' = pc
    ELSE /\ rx' = rx
         /\ pc' = next

(* the reads of a continuous session that began with a byte waiting in    *)
(* the receive buffer, counted up to 2                                     *)
CountRead(c, q) == IF q # <<>> /\ c < 2 THEN c + 1 ELSE c

(* ---- print_samples_continuously() *)
print_enter ==
  /\ pc = "print_enter"
  /\ out' = SerialPrintln(out,
       "Starting continuous sample printing. Send any character to stop.")
  /\ pc' = "print_clear"
  /\ UNCHANGED <<stack, rx, sent, cmd, i2s_buffer, srcPos,
                 bytes_read_in_chunk, total_bytes_read, acquired, entryMark,
                 stopMark, readsAfterByte, recLens, frame, printed>>

print_clear ==
  /\ pc = "print_clear"
  /\ ClearStep("print_test")
  /\ UNCHANGED <<stack, sent, cmd, i2s_buffer, srcPos, bytes_read_in_chunk,
                 total_bytes_read, out, acquired, entryMark, stopMark,
                 readsAfterByte, recLens, frame, printed>>

(* the loop condition; stopMark is the arrival number of the last byte in  *)
(* the receive buffer when the loop is left.                               *)
print_test ==
  /\ pc = "print_test"
  /\ IF ContinueLoop(rx)
       THEN /\ pc' = "print_body"
            /\ stopMark' = stopMark
       ELSE /\ pc' = "print_drain"
            /\ stopMark' = sent
  /\ UNCHANGED <<stack, rx, sent, cmd, i2s_buffer, srcPos,
                 bytes_read_in_chunk, total_bytes_read, out, acquired,
                 entryMark, readsAfterByte, recLens, frame, printed>>

(* one iteration: i2s_read, then one line per frame if the read succeeded; *)
(* readsAfterByte counts the reads of this session that began with a byte  *)
(* waiting in the receive buffer.                                          *)
print_body ==
  /\ pc = "print_body"
  /\ \E a \in I2sAnswers :
       LET buf == I2sReadInto(i2s_buffer, srcPos, Stored(a)) IN
         /\ i2s_buffer' = buf
         /\ srcPos' = srcPos + Stored(a)
         /\ acquired' = acquired \o AcquiredItems("sample", srcPos, Stored(a))
         /\ out' = IF ReadSucceeded(a.res, a.n)
                     THEN PrintSamples(out, buf, a.n)
                     ELSE out
  /\ pc' = "print_test"
  /\ readsAfterByte' = CountRead(readsAfterByte, rx)
  /\ UNCHANGED <<stack, rx, sent, cmd, bytes_read_in_chunk, total_bytes_read,
                 entryMark, stopMark, recLens, frame, printed>>

PrintStopped(o) ==
  SerialPrintln(SerialPrintln(o, "Stopped continuous printing."),
                "Send 'r' to record or 'd' to print samples.")

print_drain ==
  /\ pc = "print_drain"
  /\ ClearStep("loop")
  /\ IF SerialAvailable(rx) > 0
       THEN UNCHANGED <<out, stack, readsAfterByte>>
       ELSE /\ out' = PrintStopped(out)
            /\ stack' = Return(stack)
            /\ readsAfterByte' = 0
  /\ UNCHANGED <<sent, cmd, i2s_buffer, srcPos, bytes_read_in_chunk,
                 total_bytes_read, acquired, entryMark, stopMark, recLens, frame, printed>>

(* ---- stream_audio_continuously() *)
stream_enter ==
  /\ pc = "stream_enter"
  /\ out' = SerialPrintln(out,
       "Starting live audio stream. Stop the Python script to exit.")
  /\ pc' = "stream_clear"
  /\ UNCHANGED <<stack, rx, sent, cmd, i2s_buffer, srcPos,
                 bytes_read_in_chunk, total_bytes_read, acquired, entryMark,
                 stopMark, readsAfterByte, recLens, frame, printed>>

(* a start of the stream without the clearing loop *)
stream_clear_skipped ==
  /\ pc = "stream_clear"
  /\ pc' = "stream_test"
  /\ UNCHANGED <<stack, rx, sent, cmd, i2s_buffer, srcPos, bytes_read_in_chunk,
                 total_bytes_read, out, acquired, entryMark, stopMark,
                 readsAfterByte, recLens, frame, printed>>

stream_clear ==
  /\ pc = "stream_clear"
  /\ ClearStep("stream_test")
  /\ UNCHANGED <<stack, sent, cmd, i2s_buffer, srcPos, bytes_read_in_chunk,
                 total_bytes_read, out, acquired, entryMark, stopMark,
                 readsAfterByte, recLens, frame, printed>>

stream_test ==
  /\ pc = "stream_test"
  /\ IF ContinueLoop(rx)
       THEN /\ pc' = "stream_body"
            /\ stopMark' = stopMark
       ELSE /\ pc' = "stream_drain"
            /\ stopMark' = sent
  /\ UNCHANGED <<stack, rx, sent, cmd, i2s_buffer, srcPos,
                 bytes_read_in_chunk, total_bytes_read, out, acquired,
                 entryMark, readsAfterByte, recLens, frame, printed>>

stream_body ==
  /\ pc = "stream_body"
  /\ \E a \in I2sAnswers :
       LET buf == I2sReadInto(i2s_buffer, srcPos, Stored(a)) IN
         /\ i2s_buffer' = buf
         /\ srcPos' = srcPos + Stored(a)
         /\ acquired' = acquired \o AcquiredItems("raw", srcPos, Stored(a))
         /\ out' = IF ReadSucceeded(a.res, a.n)
                     THEN SerialWrite(out, buf, a.n)
                     ELSE out
  /\ pc' = "stream_test"
  /\ readsAfterByte' = CountRead(readsAfterByte, rx)
  /\ UNCHANGED <<stack, rx, sent, cmd, bytes_read_in_chunk, total_bytes_read,
                 entryMark, stopMark, recLens, frame, printed>>

StreamStopped(o) ==
  SerialPrintln(SerialPrintln(o, "Stopped live audio stream."),
                "Send 'r' to record, 'd' to print samples, or 'l' to stream.")

(* a stop of the stream without the clearing loop *)
stream_drain_skipped ==
  /\ pc = "stream_drain"
  /\ pc' = "loop"
  /\ out' = StreamStopped(out)
  /\ stack' = Return(stack)
  /\ readsAfterByte' = 0
  /\ UNCHANGED <<rx, sent, cmd, i2s_buffer, srcPos, bytes_read_in_chunk,
                 total_bytes_read, acquired, entryMark, stopMark, recLens, frame, printed>>

stream_drain ==
  /\ pc = "stream_drain"
  /\ ClearStep("loop")
  /\ IF SerialAvailable(rx) > 0
       THEN UNCHANGED <<out, stack, readsAfterByte>>
       ELSE /\ out' = StreamStopped(out)
            /\ stack' = Return(stack)
            /\ readsAfterByte' = 0
  /\ UNCHANGED <<sent, cmd, i2s_buffer, srcPos, bytes_read_in_chunk,
                 total_bytes_read, acquired, entryMark, stopMark, recLens, frame, printed>>

(* the steps of the firmware's one thread of control *)
Firmware ==
  \/ setup_driver_install
  \/ setup_set_pin
  \/ loop
  \/ record_audio_enter
  \/ record_audio_test
  \/ record_audio_body
  \/ print_enter
  \/ print_clear
  \/ print_test
  \/ print_body
  \/ print_drain
  \/ stream_enter
  \/ stream_clear
  \/ stream_test
  \/ stream_body
  \/ stream_drain

Next ==
  \/ host_send
  \/ Firmware

Spec == Init /\ [][Next]_vars

(* The thread is never descheduled for good: the Arduino core calls loop() *)
(* again forever, and every call made by the firmware returns.             *)
FairSpec == Spec /\ WF_vars(Firmware)

(* The microphone keeps delivering: of the reads a recording makes, one    *)
(* that stores at least one byte comes again and again.                    *)
source_delivers == record_audio_body /\ srcPos' > srcPos

DeliveringSpec == FairSpec /\ SF_vars(source_delivers)

(* ---- the sample codec on its own: one frame, taken from every 16-bit    *)
(* byte pair and from 32-bit frames around the sign and byte boundaries,   *)
(* is decoded and printed once.                                            *)
Bytes == 0..(2^8 - 1)

Frames16 == {[width |-> 16, bytes |-> <<lo, hi>>] : lo \in Bytes, hi \in Bytes}

Frames32 ==
  {[width |-> 32, bytes |-> <<b0, b1, b2, b3>>] :
     b0 \in {0, 1, 2^8 - 1}, b1 \in {0, 2^8 - 1},
     b2 \in {0, 2^7, 2^8 - 1}, b3 \in {0, 1, 2^7 - 1, 2^7, 2^8 - 1}}

DecodeInit ==
  /\ Boot
  /\ frame \in Frames16 \cup Frames32
  /\ printed = <<>>

(* Serial.println(i2s_buffer[i]) *)
decode_print16 ==
  /\ frame.width = 16
  /\ printed = <<>>
  /\ printed' = PrintDecimal(Int16At(frame.bytes[1], frame.bytes[2]))
  /\ UNCHANGED <<pc, stack, rx, sent, cmd, i2s_buffer, srcPos,
                 bytes_read_in_chunk, total_bytes_read, out, acquired,
                 entryMark, stopMark, readsAfterByte, recLens, frame>>

(* Serial.println(frame >> shift_amount) of the 32-bit build *)
decode_print32 ==
  /\ frame.width = 32
  /\ printed = <<>>
  /\ printed' = PrintDecimal(ShiftRight(Int32At(frame.bytes), ShiftAmount(32)))
  /\ UNCHANGED <<pc, stack, rx, sent, cmd, i2s_buffer, srcPos,
                 bytes_read_in_chunk, total_bytes_read, out, acquired,
                 entryMark, stopMark, readsAfterByte, recLens, frame>>

DecodeNext == decode_print16 \/ decode_print32

DecodeSpec == DecodeInit /\ [][DecodeNext]_vars

(***************************************************************************)
(* The claims                                                              *)
(***************************************************************************)
Last(o) == o[Len(o)]

RecordingFinished == out # <<>> /\ Last(out) = TextLine("Recording finished.")

(* C1: when a recording has finished, exactly RECORD_BUFFER_SIZE =         *)
(* sample_rate * duration_seconds * bytes_per_sample raw bytes were        *)
(* forwarded in that session, all of them before the 'Recording            *)
(* finished.' line, however i2s_read split the data into blocks.           *)
C1_ExactBudget ==
  RecordingFinished =>
    /\ RawCount(out) = RECORD_BUFFER_SIZE
    /\ RawCount(SubSeq(out, 1, Len(out) - 1)) = RawCount(out)

(* C2: all finished recordings forwarded the same number of bytes.         *)
C2_IdenticalLengths == Cardinality(recLens) <= 1

ContinuousModes == {"PrintingDecoded", "StreamingRaw"}
TestPcs == {"print_test", "stream_test"}
BodyPcs == {"print_body", "stream_body"}
DrainPcs == {"print_drain", "stream_drain"}

(* C3: once a byte is available during StreamingRaw or PrintingDecoded, at *)
(* most one more read is started (the one whose loop test came before the  *)
(* byte), and the mode then leaves its loop and returns to Idle.           *)
C3_StopSignal ==
  /\ [](readsAfterByte <= 1)
  /\ [][(pc \in TestPcs /\ rx # <<>>) => pc' \in DrainPcs \cup TestPcs]_vars
  /\ (pc \in TestPcs \cup BodyPcs /\ rx # <<>>) ~> (Mode = "Idle")

C3_Witness == pc \in DrainPcs /\ readsAfterByte = 1 /\ acquired # <<>>

(* C4: the payload written since the command was read is exactly what the  *)
(* successful reads of the session delivered, in acquisition order: the    *)
(* raw bytes in Recording and StreamingRaw, one line per whole frame of    *)
(* each block in PrintingDecoded; nothing reordered, duplicated or lost.   *)
Payload(o) == SelectSeq(o, LAMBDA it : it.k # "text")

C4_AcquisitionOrder == Payload(out) = acquired

C4_Witness == pc = "print_test" /\ Len(acquired) > I2S_BUFFER_SIZE

(* C5: a command is read only while Idle and leads to the mode of its      *)
(* byte ('r' Recording, 'd' PrintingDecoded, 'l' StreamingRaw, else Idle); *)
(* the mode changes only from Idle by a command, or back to Idle.          *)
TargetMode(c) ==
  CASE c = "r" -> "Recording"
    [] c = "d" -> "PrintingDecoded"
    [] c = "l" -> "StreamingRaw"
    [] OTHER -> "Idle"

C5_Dispatch ==
  [][/\ cmd' # cmd => (Mode = "Idle" /\ Mode' = TargetMode(cmd'.ch))
     /\ Mode' # Mode => ((Mode = "Idle" /\ cmd' # cmd) \/ Mode' = "Idle")]_vars

C5_Witness == Mode = "StreamingRaw" /\ cmd.ch = "l" /\ acquired # <<>>

(* C6: after a byte other than 'r', 'd', 'l' was read while Idle, the mode *)
(* is still Idle and nothing has been written since.                       *)
C6_UnknownIgnored ==
  (cmd # NoCmd /\ cmd.ch \notin {"r", "d", "l"}) =>
     (Mode = "Idle" /\ pc = "loop" /\ out = <<>>)

C6_Witness == cmd.ch = "x" /\ cmd.id = 2 /\ pc = "loop"

(* C7: at most one mode function is active at any time, and a command is   *)
(* read only when none is: no session starts inside another.               *)
ActiveSessions ==
  Cardinality({i \in 1..Len(stack) : ModeOfFrame(stack[i]) # "Idle"})

C7_OneSession ==
  /\ [](ActiveSessions <= 1 /\ Len(stack) <= 2)
  /\ [][cmd' # cmd => ActiveSessions = 0]_vars

C7_Witness == Mode = "Recording" /\ rx # <<>> /\ Head(rx).ch = "l"

(* C8: a byte that was in the receive buffer when a continuous mode was    *)
(* called is gone before the first loop test: it is never in the buffer    *)
(* while the mode loops or drains, and is never read as a command.         *)
LoopPcs == TestPcs \cup BodyPcs \cup DrainPcs

C8_EntryDiscard ==
  /\ [](pc \in LoopPcs => \A i \in 1..Len(rx) : rx[i].id > entryMark)
  /\ [][cmd' # cmd => cmd'.id > entryMark]_vars

C8_Witness == pc = "stream_body" /\ entryMark > cmd.id /\ acquired # <<>>

(* C9: a continuous mode that stops drains the receive buffer, then writes *)
(* its status lines and is Idle, in that order: the status lines are       *)
(* written by the step that finds the buffer empty and returns; every byte *)
(* that had arrived when the loop was left is consumed by the drain, so    *)
(* no later command is one of them.                                        *)
Stopped(o) ==
  \E i \in 1..Len(o) :
    o[i] \in {TextLine("Stopped live audio stream."),
              TextLine("Stopped continuous printing.")}

C9_StopOrder ==
  [][/\ (~Stopped(out) /\ Stopped(out')) =>
          (pc \in DrainPcs /\ rx = <<>> /\ rx' = <<>> /\ Mode' = "Idle")
     /\ (Mode \in ContinuousModes /\ Mode' = "Idle") =>
          (pc \in DrainPcs /\ Stopped(out') /\ Len(out') = Len(out) + 2)
     /\ (pc \in DrainPcs /\ rx # <<>> /\ sent' = sent) =>
          (rx' = Tail(rx) /\ out' = out /\ pc' = pc)
     /\ cmd' # cmd => cmd'.id > stopMark]_vars

C9_Witness ==
  /\ cmd.ch = "r"
  /\ Mode = "Recording"
  /\ stopMark > 0
  /\ stopMark < cmd.id

(* C10: a continuous mode leaves its loop exactly when its loop test finds *)
(* a byte in the receive buffer, whatever the byte is: the test gives the  *)
(* same answer for every content of the same length; the mode returns to   *)
(* Idle only through the drain that follows such a test.                   *)
SameLength(q) ==
  {[i \in 1..Len(q) |-> [ch |-> f[i], id |-> q[i].id]] :
     f \in [1..Len(q) -> CommandChars]}

C10_AnyByteStops ==
  /\ [](pc \in TestPcs => \A q \in SameLength(rx) : ContinueLoop(q) = ContinueLoop(rx))
  /\ [][/\ (pc \in TestPcs /\ pc' # pc) =>
             (IF rx = <<>> THEN pc' \in BodyPcs ELSE pc' \in DrainPcs)
        /\ (pc \notin DrainPcs /\ pc' \in DrainPcs) => (pc \in TestPcs /\ rx # <<>>)
        /\ (Mode \in ContinuousModes /\ Mode' # Mode) => pc \in DrainPcs]_vars

C10_Witness ==
  /\ pc = "print_drain"
  /\ rx # <<>>
  /\ Head(rx).ch = "d"
  /\ acquired # <<>>

RecPcs == {"rec_enter", "rec_test", "rec_body"}

(* C11: a recording is left only when its byte count has reached the       *)
(* budget; a byte waiting in the receive buffer neither ends it nor keeps  *)
(* the loop from reading on.                                               *)
C11_NoCancel ==
  [][/\ (Mode = "Recording" /\ Mode' # "Recording") =>
          (total_bytes_read >= RECORD_BUFFER_SIZE /\ RawCount(out) >= RECORD_BUFFER_SIZE)
     /\ (pc = "rec_test" /\ total_bytes_read < RECORD_BUFFER_SIZE /\ pc' # pc) =>
          pc' = "rec_body"]_vars

C11_Witness ==
  /\ pc = "rec_body"
  /\ rx # <<>>
  /\ total_bytes_read > 0

(* C12: an i2s_read that fails or stores no byte is skipped: the iteration *)
(* writes nothing, leaves the recording's byte count as it was, stays in   *)
(* the mode and goes back to the loop test, from where the next read is    *)
(* made.                                                                   *)
TestPcOf(p) ==
  CASE p = "rec_body" -> "rec_test"
    [] p = "print_body" -> "print_test"
    [] p = "stream_body" -> "stream_test"
    [] OTHER -> "none"

C12_TransientSkipped ==
  [][(pc \in BodyPcs \cup {"rec_body"} /\ pc' # pc /\ srcPos' = srcPos) =>
        /\ out' = out
        /\ total_bytes_read' = total_bytes_read
        /\ stack' = stack
        /\ pc' = TestPcOf(pc)]_vars

C12_Witness ==
  /\ pc = "rec_test"
  /\ bytes_read_in_chunk > 0
  /\ srcPos = 1
  /\ total_bytes_read = 0

Diagnostics(o) ==
  {i \in 1..Len(o) : o[i] \in {TextLine("Failed to install driver"),
                               TextLine("Failed to set pin")}}

(* C13: when i2s_driver_install or i2s_set_pin fails, one diagnostic line  *)
(* is printed, it is the last output ever, and the firmware stays halted   *)
(* in setup(): loop() never runs, no command byte is read from the receive *)
(* buffer and no mode is entered.                                          *)
C13_StartupHalt ==
  /\ [](Diagnostics(out) # {} =>
          /\ pc = "halt"
          /\ Diagnostics(out) = {Len(out)}
          /\ cmd = NoCmd
          /\ stack = <<"setup">>
          /\ Mode = "Idle")
  /\ [][pc = "halt" =>
          /\ pc' = "halt"
          /\ out' = out
          /\ cmd' = cmd
          /\ stack' = stack
          /\ Len(rx') >= Len(rx)
          /\ SubSeq(rx', 1, Len(rx)) = rx]_vars

C13_Witness ==
  /\ pc = "halt"
  /\ Last(out) = TextLine("Failed to set pin")
  /\ Len(rx) > 1

StatusIdx(o) == {i \in 1..Len(o) : o[i].k = "text"}
PayloadIdx(o) == {i \in 1..Len(o) : o[i].k # "text"}

StartLine(m) ==
  CASE m = "Recording" -> TextLine("Recording...")
    [] m = "PrintingDecoded" ->
         TextLine("Starting continuous sample printing. Send any character to stop.")
    [] m = "StreamingRaw" ->
         TextLine("Starting live audio stream. Stop the Python script to exit.")
    [] OTHER -> TextLine("")

EndLines(m) ==
  CASE m = "Recording" -> <<TextLine("Recording finished.")>>
    [] m = "PrintingDecoded" -> PrintStopped(<<>>)
    [] m = "StreamingRaw" -> StreamStopped(<<>>)
    [] OTHER -> <<>>

EnterPcs == {"rec_enter", "print_enter", "stream_enter"}

(* C14: status lines stand only at the two ends of a session: no status    *)
(* line lies between two payload items; while a session runs its output is *)
(* its start line followed by payload only, and when it has returned the   *)
(* output of the session is the start line, the payload, then the end      *)
(* line(s) of its mode.                                                    *)
C14_StatusAtBoundaries ==
  /\ \A i \in StatusIdx(out) : \A j, k \in PayloadIdx(out) : ~(j < i /\ i < k)
  /\ (Mode # "Idle" /\ pc \notin EnterPcs) =>
        (out # <<>> /\ out[1] = StartLine(Mode) /\ StatusIdx(out) = {1})
  /\ (pc = "loop" /\ CalleeOf(cmd.ch) # "none") =>
        out = <<StartLine(ModeOfFrame(CalleeOf(cmd.ch)))>> \o Payload(out)
                \o EndLines(ModeOfFrame(CalleeOf(cmd.ch)))

C14_Witness ==
  /\ pc = "loop"
  /\ cmd.ch = "l"
  /\ Len(Payload(out)) > SizeofI2sBuffer
  /\ Stopped(out)

DigitValue(c) == CHOOSE d \in 0..9 : DigitChars[d + 1] = c

RECURSIVE ParseNumber(_)
ParseNumber(t) ==
  IF t = <<>> THEN 0
  ELSE 10 * ParseNumber(SubSeq(t, 1, Len(t) - 1)) + DigitValue(t[Len(t)])

ParseDecimal(t) == IF t[1] = "-" THEN -ParseNumber(Tail(t)) ELSE ParseNumber(t)

(* bit i (0 = least significant) of a frame's bytes, and of a signed value *)
(* held in w bits                                                          *)
FrameBit(b, i) == (b[(i \div 8) + 1] \div 2^(i % 8)) % 2
ValueBit(v, i, w) ==
  IF i = w - 1 THEN (IF v < 0 THEN 1 ELSE 0) ELSE (v \div 2^i) % 2

(* C15: the decimal line printed for a frame is the frame shifted right by *)
(* the configured amount with the sign bit copied into the vacated bits:   *)
(* bit i of the printed value is bit i + shift of the frame, or the        *)
(* frame's sign bit above that; a negative frame prints negative, down to  *)
(* the most negative one.  With shift 0 a 16-bit frame prints as its own   *)
(* signed value; with 32 bits and shift 8, 0x7FFFFF00 gives 0x007FFFFF and *)
(* 0x80000000 gives 0xFF800000.                                            *)
C15_Decode ==
  printed # <<>> =>
    LET w == frame.width
        s == ShiftAmount(w)
        v == ParseDecimal(printed)
    IN /\ \A i \in 0..(w - 1) :
            ValueBit(v, i, w) =
              FrameBit(frame.bytes, IF i + s <= w - 1 THEN i + s ELSE w - 1)
       /\ -(2^(w - s - 1)) <= v /\ v < 2^(w - s - 1)
       /\ v < 0 <=> FrameBit(frame.bytes, w - 1) = 1
       /\ PrintDecimal(v) = printed
       /\ frame.bytes = <<0, 2^7>> => v = -(2^15)
       /\ frame.bytes = <<0, 2^8 - 1, 2^8 - 1, 2^7 - 1>> => v = 2^23 - 1
       /\ frame.bytes = <<0, 0, 0, 2^7>> => v = -(2^23)

C15_Witness ==
  /\ frame = [width |-> 32, bytes |-> <<0, 0, 0, 2^7>>]
  /\ printed = <<"-", "8", "3", "8", "8", "6", "0", "8">>

OutIds(o) == UNION {{o[i].ids[j] : j \in 1..Len(o[i].ids)} : i \in 1..Len(o)}

BlockLen(buf) == Cardinality({i \in 1..SizeofI2sBuffer : buf[i] # Old(buf[i])})

(* what the output takes of a block of n bytes: all of it, or its whole    *)
(* frames when samples are printed                                         *)
Consumed(m, n) == IF m = "PrintingDecoded" THEN SIZEOF_INT16 * SamplesRead(n) ELSE n

AcquireLoopPcs == TestPcs \cup BodyPcs \cup {"rec_test", "rec_body"}

(* C16: the loops never read ahead of the output: whenever a loop is at    *)
(* its test or about to call i2s_read, every byte of the block that the    *)
(* last read stored in i2s_buffer is already on the output (for printed    *)
(* samples: every whole frame), and the step that stores a block is the    *)
(* step that puts it out, so no block is ever waiting when the buffer is   *)
(* overwritten.                                                            *)
C16_NoRunAhead ==
  /\ [](pc \in AcquireLoopPcs =>
          \A i \in 1..Consumed(Mode, BlockLen(i2s_buffer)) :
             i2s_buffer[i] \in OutIds(out))
  /\ [][srcPos' > srcPos =>
          /\ pc \in BodyPcs \cup {"rec_body"}
          /\ \A b \in srcPos..(srcPos + Consumed(Mode, srcPos' - srcPos) - 1) :
               b \in OutIds(out') /\ b \notin OutIds(out)]_vars

C16_Witness ==
  /\ pc = "stream_body"
  /\ BlockLen(i2s_buffer) = SizeofI2sBuffer
  /\ srcPos > SizeofI2sBuffer + 1

(* C17: while the source keeps delivering non-empty blocks and every call  *)
(* returns, a recording ends: each delivered block raises the byte count,  *)
(* and every recording reaches the state where 'Recording finished.' has   *)
(* been printed and loop() has the control again.  Failed and empty reads  *)
(* in between only delay this.                                             *)
C17_RecordingEnds ==
  /\ [][(pc = "rec_body" /\ srcPos' > srcPos) =>
          total_bytes_read' > total_bytes_read]_vars
  /\ (Mode = "Recording") ~> (pc = "loop" /\ Mode = "Idle" /\ RecordingFinished)

C17_Witness ==
  /\ pc = "loop"
  /\ RecordingFinished
  /\ bytes_read_in_chunk = 0
  /\ Len(acquired) >= RECORD_BUFFER_SIZE
  /\ srcPos > RECORD_BUFFER_SIZE

(* C18: in print_samples_continuously a read that stored n bytes prints    *)
(* exactly n div 2 lines, line i holding the frame made of buffer bytes    *)
(* 2i, 2i+1 counted from buffer index 0, in that order; the last byte of   *)
(* an odd n prints nothing.                                                *)
C18_LinesPerRead ==
  [][(pc = "print_body" /\ pc' # pc) =>
        LET n == srcPos' - srcPos
            k == n \div 2
        IN /\ Len(out') = Len(out) + k
           /\ SubSeq(out', 1, Len(out)) = out
           /\ \A i \in 1..k :
                /\ out'[Len(out) + i].k = "sample"
                /\ out'[Len(out) + i].ids = <<i2s_buffer'[2 * i - 1], i2s_buffer'[2 * i]>>
                /\ out'[Len(out) + i].ids = <<srcPos + 2 * (i - 1), srcPos + 2 * i - 1>>]_vars

C18_Witness ==
  /\ pc = "print_test"
  /\ BlockLen(i2s_buffer) = 3
  /\ Last(out) = SampleLine(srcPos - 3, srcPos - 2)

(* C19: a finished recording has forwarded at least the budget and less    *)
(* than the budget plus one buffer of bytes; the byte count of a session   *)
(* starts at 0 and counts exactly the raw bytes the session has written,   *)
(* each block whole.                                                       *)
C19_BudgetWindow ==
  /\ RecordingFinished =>
       /\ RECORD_BUFFER_SIZE <= RawCount(out)
       /\ RawCount(out) < RECORD_BUFFER_SIZE + SizeofI2sBuffer
  /\ pc \in {"rec_test", "rec_body"} =>
       /\ total_bytes_read = RawCount(out)
       /\ total_bytes_read < RECORD_BUFFER_SIZE + SizeofI2sBuffer
       /\ out = <<StartLine("Recording")>> \o [i \in 1..total_bytes_read |-> RawByte(i)]

C19_Witness ==
  /\ RecordingFinished
  /\ RawCount(out) = RECORD_BUFFER_SIZE + SizeofI2sBuffer - 1
  /\ cmd.id > 1

(* C20: record_audio never reads the receive buffer: during a recording    *)
(* the buffer only grows, by the bytes that arrive, at its end; a command  *)
(* is taken only by loop(), one byte per call, always the oldest waiting   *)
(* byte, and is dispatched like any other command, so an 'r' that waited   *)
(* through a recording starts the next one; after a recording no byte is   *)
(* skipped, which only the continuous modes do.                            *)
C20_QueuedCommands ==
  [][/\ (Mode = "Recording" /\ sent' = sent) => rx' = rx
     /\ (Mode = "Recording" /\ sent' # sent) =>
          (Len(rx') = Len(rx) + 1 /\ SubSeq(rx', 1, Len(rx)) = rx /\ pc' = pc)
     /\ cmd' # cmd =>
          /\ pc = "loop"
          /\ rx # <<>>
          /\ cmd' = Head(rx)
          /\ rx' = Tail(rx)
          /\ cmd'.id > cmd.id
          /\ ~Continuous(CalleeOf(cmd.ch)) => cmd'.id = cmd.id + 1
          /\ pc' = EntryPc(CalleeOf(cmd'.ch))]_vars

C20_Witness ==
  /\ Mode = "Recording"
  /\ cmd = [ch |-> "r", id |-> 2]
  /\ recLens # {}
  /\ total_bytes_read > 0
  /\ rx # <<>>

====
